---------------------------- MODULE Spec2Model ----------------------------
(***************************************************************************)
(* Model of the Jetflix movie search engine (src/main.py).                 *)
(*                                                                         *)
(* A Python str is a sequence of one-character strings, so that lower(),   *)
(* split(), startswith()/endswith(), slicing and str() are computed the    *)
(* way the interpreter computes them.  A movie (a dict produced by         *)
(* csv.DictReader) is a function from field names (strings) to tagged      *)
(* values.  A result list holds pairs <<score, i>> where i is the position *)
(* of the movie dict in the catalog list: the pair refers to the dict, it  *)
(* does not copy it, exactly as the tuples (score, movie) do.              *)
(***************************************************************************)
EXTENDS Integers, Sequences, FiniteSets, TLC

(***************************************************************************)
(* Python strings                                                          *)
(***************************************************************************)
UpperChars == <<"A","B","C","D","E","F","G","H","I","J","K","L","M",
                "N","O","P","Q","R","S","T","U","V","W","X","Y","Z">>

LowerChars == <<"a","b","c","d","e","f","g","h","i","j","k","l","m",
                "n","o","p","q","r","s","t","u","v","w","x","y","z">>

DigitChars == <<"0","1","2","3","4","5","6","7","8","9">>

\* str.lower() on one character (ASCII letters).
LowerChar(c) ==
    IF \E i \in DOMAIN UpperChars : UpperChars[i] = c
    THEN LowerChars[CHOOSE i \in DOMAIN UpperChars : UpperChars[i] = c]
    ELSE c

\* str.lower()
Lower(s) == [i \in 1..Len(s) |-> LowerChar(s[i])]

\* Characters str.split() without argument treats as separators.
IsSpace(c) == c \in {" ", "\t"}

\* c in s
Contains(s, c) == \E i \in 1..Len(s) : s[i] = c

RECURSIVE SplitWsFrom(_, _, _)
SplitWsFrom(s, cur, acc) ==
    IF s = <<>>
    THEN IF cur = <<>> THEN acc ELSE Append(acc, cur)
    ELSE IF IsSpace(Head(s))
         THEN SplitWsFrom(Tail(s), <<>>, IF cur = <<>> THEN acc ELSE Append(acc, cur))
         ELSE SplitWsFrom(Tail(s), Append(cur, Head(s)), acc)

\* str.split(): split on runs of whitespace, no empty strings in the result.
SplitWs(s) == SplitWsFrom(s, <<>>, <<>>)

RECURSIVE SplitSepFrom(_, _, _, _)
SplitSepFrom(s, sep, cur, acc) ==
    IF Len(s) < Len(sep)
    THEN Append(acc, cur \o s)
    ELSE IF SubSeq(s, 1, Len(sep)) = sep
         THEN SplitSepFrom(SubSeq(s, Len(sep) + 1, Len(s)), sep, <<>>, Append(acc, cur))
         ELSE SplitSepFrom(Tail(s), sep, Append(cur, Head(s)), acc)

\* str.split(sep): split on every occurrence of sep, empty strings kept.
SplitSep(s, sep) == SplitSepFrom(s, sep, <<>>, <<>>)

\* value.startswith('"') and value.endswith('"')
Quoted(value) == Len(value) >= 1 /\ value[1] = "\"" /\ value[Len(value)] = "\""

\* value[1:-1]
Slice1M1(value) == SubSeq(value, 2, Len(value) - 1)

RECURSIVE JoinWith(_, _)
\* sep.join(parts)
JoinWith(parts, sep) ==
    IF parts = <<>> THEN <<>>
    ELSE IF Len(parts) = 1 THEN parts[1]
    ELSE parts[1] \o sep \o JoinWith(Tail(parts), sep)

RECURSIVE NatStr(_)
\* str(n) for an int n >= 0
NatStr(n) ==
    IF n < 10 THEN <<DigitChars[n + 1]>>
    ELSE Append(NatStr(n \div 10), DigitChars[(n % 10) + 1])

IsDigit(c) == \E i \in DOMAIN DigitChars : DigitChars[i] = c

DigitVal(c) == (CHOOSE i \in DOMAIN DigitChars : DigitChars[i] = c) - 1

IsDigits(s) == Len(s) >= 1 /\ \A i \in 1..Len(s) : IsDigit(s[i])

RECURSIVE DigitsVal(_)
DigitsVal(s) ==
    IF s = <<>> THEN 0 ELSE 10 * DigitsVal(SubSeq(s, 1, Len(s) - 1)) + DigitVal(s[Len(s)])


(***************************************************************************)
(* Python values held in a movie dict, and str() of them                   *)
(***************************************************************************)
StrV(s) == [str |-> s]

IntV(n) == [int |-> n]

ListV(l) == [list |-> l]

\* A float with one decimal, held as its number of tenths (8.8 is 88).
FloatV(t) == [tenths |-> t]

NoneV == [none |-> TRUE]

IsStrV(v) == DOMAIN v = {"str"}

IsIntV(v) == DOMAIN v = {"int"}

IsListV(v) == DOMAIN v = {"list"}

IsFloatV(v) == DOMAIN v = {"tenths"}

IsNoneV(v) == DOMAIN v = {"none"}

\* repr() of a str: single quotes, unless it holds a ' and no "
\* (a ' inside single quotes is escaped).
RECURSIVE EscapeSingle(_)
EscapeSingle(s) ==
    IF s = <<>> THEN <<>>
    ELSE (IF Head(s) = "'" THEN <<"\\", "'">> ELSE <<Head(s)>>) \o EscapeSingle(Tail(s))

ReprStr(s) ==
    IF Contains(s, "'") /\ ~Contains(s, "\"")
    THEN <<"\"">> \o s \o <<"\"">>
    ELSE <<"'">> \o EscapeSingle(s) \o <<"'">>

\* str() of a list of str: '[' + ', '.join(repr(x)) + ']'
ListStr(l) ==
    <<"[">> \o JoinWith([i \in 1..Len(l) |-> ReprStr(l[i])], <<",", " ">>) \o <<"]">>

\* str() of a float with one decimal
FloatStr(t) == NatStr(t \div 10) \o <<".">> \o NatStr(t % 10)

NoneStr == <<"N","o","n","e">>

\* str(movie[field])
Str(v) ==
    IF IsStrV(v) THEN v.str
    ELSE IF IsIntV(v) THEN NatStr(v.int)
    ELSE IF IsListV(v) THEN ListStr(v.list)
    ELSE IF IsFloatV(v) THEN FloatStr(v.tenths)
    ELSE NoneStr

(***************************************************************************)
(* Field names                                                             *)
(***************************************************************************)
K_title == <<"t","i","t","l","e">>

K_director == <<"d","i","r","e","c","t","o","r">>

K_year == <<"y","e","a","r">>

K_genre == <<"g","e","n","r","e">>

K_imdb_rating == <<"i","m","d","b","_","r","a","t","i","n","g">>

\* d[key] = val on a dict
SetItem(d, key, val) ==
    [k \in (DOMAIN d) \cup {key} |-> IF k = key THEN val ELSE d[k]]

(***************************************************************************)
(* load_movies: a csv.DictReader row (column name -> text) becomes a movie *)
(***************************************************************************)
\* int(row['year']) succeeds on a run of decimal digits; any other text of
\* the rows used here raises ValueError, which leaves the text in place.
ParseYear(text) == IF IsDigits(text) THEN IntV(DigitsVal(text)) ELSE StrV(text)

GenreSep == <<" ", "|", " ">>

LoadRow(row) ==
    [k \in DOMAIN row |->
        IF k = K_year THEN ParseYear(row[k])
        ELSE IF k = K_genre THEN ListV(SplitSep(row[k], GenreSep))
        ELSE StrV(row[k])]

load_movies(rows) == [i \in 1..Len(rows) |-> LoadRow(rows[i])]

(***************************************************************************)
(* fuzz.partial_ratio(s1, s2), as fuzzywuzzy computes it over difflib's    *)
(* SequenceMatcher.  Positions are Python's: 0-based, ranges half-open.    *)
(***************************************************************************)
Max(S) == CHOOSE x \in S : \A y \in S : y <= x

Min(S) == CHOOSE x \in S : \A y \in S : x <= y

RECURSIVE CommonLen(_, _, _, _, _, _)
\* Length of the longest k with a[i:i+k] == b[j:j+k], i+k <= ahi, j+k <= bhi.
CommonLen(a, b, i, j, ahi, bhi) ==
    IF i < ahi /\ j < bhi /\ a[i + 1] = b[j + 1]
    THEN 1 + CommonLen(a, b, i + 1, j + 1, ahi, bhi)
    ELSE 0

\* SequenceMatcher.find_longest_match: the longest matching block of
\* a[alo:ahi] and b[blo:bhi]; of the longest, the one starting earliest in a,
\* and of those the one starting earliest in b.  <<alo, blo, 0>> if none.
FindLongestMatch(a, b, alo, ahi, blo, bhi) ==
    LET pos == (alo..(ahi - 1)) \X (blo..(bhi - 1))
        best == IF pos = {} THEN 0
                ELSE Max({CommonLen(a, b, p[1], p[2], ahi, bhi) : p \in pos})
    IN  IF best = 0 THEN <<alo, blo, 0>>
        ELSE LET hits == {p \in pos : CommonLen(a, b, p[1], p[2], ahi, bhi) = best}
                 i == Min({p[1] : p \in hits})
                 j == Min({p[2] : p \in {h \in hits : h[1] = i}})
             IN  <<i, j, best>>

RECURSIVE MatchingBlocks(_, _, _, _, _, _)
\* SequenceMatcher.get_matching_blocks without the final dummy block; the
\* merging of adjacent blocks changes neither their total size nor j - i.
MatchingBlocks(a, b, alo, ahi, blo, bhi) ==
    LET m == FindLongestMatch(a, b, alo, ahi, blo, bhi)
        i == m[1]
        j == m[2]
        k == m[3]
    IN  IF k = 0 THEN {}
        ELSE {m}
             \cup (IF alo < i /\ blo < j
                   THEN MatchingBlocks(a, b, alo, i, blo, j) ELSE {})
             \cup (IF i + k < ahi /\ j + k < bhi
                   THEN MatchingBlocks(a, b, i + k, ahi, j + k, bhi) ELSE {})

RECURSIVE SumSizes(_)
SumSizes(blocks) ==
    IF blocks = {} THEN 0
    ELSE LET m == CHOOSE x \in blocks : TRUE
         IN  m[3] + SumSizes(blocks \ {m})

\* int(round(100 * n / d)), Python 3 rounding (half to even)
IntRound100(n, d) ==
    LET q == (100 * n) \div d
        r == (100 * n) % d
    IN  IF 2 * r < d THEN q
        ELSE IF 2 * r > d THEN q + 1
        ELSE IF q % 2 = 0 THEN q ELSE q + 1

\* 100 * SequenceMatcher(None, a, b).ratio(), rounded: 2.0 * M / T
Ratio100(a, b) ==
    IF Len(a) + Len(b) = 0 THEN 100
    ELSE IntRound100(2 * SumSizes(MatchingBlocks(a, b, 0, Len(a), 0, Len(b))),
                     Len(a) + Len(b))

partial_ratio(s1, s2) ==
    IF s1 = s2 THEN 100                          \* utils.check_for_equivalence
    ELSE IF Len(s1) = 0 \/ Len(s2) = 0 THEN 0    \* utils.check_empty_string
    ELSE
      LET shorter == IF Len(s1) <= Len(s2) THEN s1 ELSE s2
          longer  == IF Len(s1) <= Len(s2) THEN s2 ELSE s1
          blocks  == MatchingBlocks(shorter, longer, 0, Len(shorter), 0, Len(longer))
                       \cup {<<Len(shorter), Len(longer), 0>>}
          starts  == {IF m[2] - m[1] > 0 THEN m[2] - m[1] ELSE 0 : m \in blocks}
          \* longer[long_start:long_end]
          sub(st) == SubSeq(longer, st + 1, Min({st + Len(shorter), Len(longer)}))
      IN  Max({Ratio100(shorter, sub(st)) : st \in starts})

(***************************************************************************)
(* perform_search                                                          *)
(***************************************************************************)
\* The ratio a title token must reach.
FuzzyThreshold == 70

Colon == <<":">>

\* field, value = part.split(':') raises ValueError (too many values to
\* unpack) unless the split gives exactly two pieces.
PartRaises(part) == Contains(part, ":") /\ Len(SplitSep(part, Colon)) # 2

\* value after the quotes are removed
StripQuotes(value) == IF Quoted(value) THEN Slice1M1(value) ELSE value

\* field in movie and str(movie[field]).lower() == value.lower()
FieldMatches(field, value, movie) ==
    field \in DOMAIN movie /\ Lower(Str(movie[field])) = Lower(value)

\* fuzz.partial_ratio(part.lower(), movie['title'].lower()) >= 70
FuzzyMatches(part, movie) ==
    partial_ratio(Lower(part), Lower(Str(movie[K_title]))) >= FuzzyThreshold

\* Whether one query part adds 1 to match_count (the part does not raise).
PartMatches(part, movie) ==
    IF Contains(part, ":")
    THEN LET pieces == SplitSep(part, Colon)
         IN  FieldMatches(pieces[1], StripQuotes(pieces[2]), movie)
    ELSE FuzzyMatches(part, movie)

\* match_count after the loop over query_parts
MatchCount(query_parts, movie) ==
    Cardinality({p \in 1..Len(query_parts) : PartMatches(query_parts[p], movie)})

\* if match_count > 0
Keep(match_count) == match_count > 0

RECURSIVE Scored(_, _, _)
\* The list results before the sort: (score, movie) for the movies kept,
\* in catalog order, from position i on.
Scored(query_parts, movies, i) ==
    IF i > Len(movies) THEN <<>>
    ELSE LET match_count == MatchCount(query_parts, movies[i])
         IN  (IF Keep(match_count) THEN << <<match_count, i>> >> ELSE <<>>)
             \o Scored(query_parts, movies, i + 1)

RECURSIVE InsertDesc(_, _)
\* x put behind every entry whose score is >= its own.
InsertDesc(sorted, x) ==
    IF sorted = <<>> THEN <<x>>
    ELSE IF Head(sorted)[1] >= x[1]
         THEN <<Head(sorted)>> \o InsertDesc(Tail(sorted), x)
         ELSE <<x>> \o sorted

\* Variant: sort by ascending score, then reverse the list (entries of
\* equal score end up in reverse catalog order).
SortAscThenReverse(results) ==
    LET n == Len(results)
        rev == [k \in 1..n |-> results[n + 1 - k]]
        InsertAt(sorted, x) ==
            LET ahead == {k \in 1..Len(sorted) : sorted[k][1] >= x[1]}
                m == Cardinality(ahead)
            IN  SubSeq(sorted, 1, m) \o <<x>> \o SubSeq(sorted, m + 1, Len(sorted))
        Build[k \in 0..n] == IF k = 0 THEN <<>> ELSE InsertAt(Build[k - 1], rev[k])
    IN  Build[n]

RECURSIVE SortDesc(_)
\* results.sort(key=lambda x: x[0], reverse=True): list.sort is stable, and
\* with reverse=True entries of equal key keep their original order.
SortDesc(results) ==
    IF results = <<>> THEN <<>>
    ELSE InsertDesc(SortDesc(SubSeq(results, 1, Len(results) - 1)),
                    results[Len(results)])

\* perform_search(query, movies): the exception raised, or the list returned.
\* The unpacking is reached only inside the loop over movies.
perform_search(query, movies) ==
    LET query_parts == SplitWs(query)
    IN  IF movies # <<>> /\ \E p \in 1..Len(query_parts) : PartRaises(query_parts[p])
        THEN [raised |-> "ValueError", ret |-> <<>>]
        ELSE [raised |-> "none", ret |-> SortDesc(Scored(query_parts, movies, 1))]

(***************************************************************************)
(* get_imdb_rating and fetch_imdb_ratings                                  *)
(***************************************************************************)
HttpOk == 200

\* What requests.get(url) can do: fail (net = FALSE), or answer with a
\* status and a body; a body is JSON or not, and a JSON body has the
\* imdbRating field (a text) or not.
Response(net, status, json, has, rating) ==
    [net |-> net, status |-> status, json |-> json, has |-> has, rating |-> rating]

R_neterr == Response(FALSE, HttpOk, FALSE, FALSE, <<>>)

\* Any status other than 200.
R_404 == Response(TRUE, 404, TRUE, FALSE, <<>>)

R_notjson == Response(TRUE, HttpOk, FALSE, FALSE, <<>>)

R_missing == Response(TRUE, HttpOk, TRUE, FALSE, <<>>)

R_na == Response(TRUE, HttpOk, TRUE, TRUE, <<"N","/","A">>)

R_88 == Response(TRUE, HttpOk, TRUE, TRUE, <<"8",".","8">>)

Responses == {R_neterr, R_404, R_notjson, R_missing, R_na, R_88}

\* float(rating) parses digits '.' digit; any other text of Responses
\* raises ValueError.
FloatParses(text) ==
    /\ Len(text) >= 3
    /\ text[Len(text) - 1] = "."
    /\ IsDigits(SubSeq(text, 1, Len(text) - 2))
    /\ IsDigit(text[Len(text)])

FloatOf(text) ==
    FloatV(10 * DigitsVal(SubSeq(text, 1, Len(text) - 2)) + DigitVal(text[Len(text)]))

\* get_imdb_rating(title) when requests.get answers resp: the exception
\* raised, or the value returned.
get_imdb_rating(resp) ==
    IF ~resp.net THEN [raised |-> "ConnectionError", val |-> NoneV]
    ELSE IF resp.status = HttpOk
    THEN IF ~resp.json THEN [raised |-> "JSONDecodeError", val |-> NoneV]
         ELSE IF resp.has /\ resp.rating # <<>>
              THEN IF FloatParses(resp.rating)
                   THEN [raised |-> "none", val |-> FloatOf(resp.rating)]
                   ELSE [raised |-> "ValueError", val |-> NoneV]
              ELSE [raised |-> "none", val |-> NoneV]
    ELSE [raised |-> "none", val |-> NoneV]

\* Variant: the rating is stored only when it is truthy.
StoreRatingIfTruthy(movie, imdb_rating) ==
    IF IsNoneV(imdb_rating) THEN movie ELSE SetItem(movie, K_imdb_rating, imdb_rating)

\* movie['imdb_rating'] = imdb_rating
StoreRating(movie, imdb_rating) == SetItem(movie, K_imdb_rating, imdb_rating)

RECURSIVE FetchFrom(_, _, _, _)
\* The loop of fetch_imdb_ratings from results[k] on, resps[k] being the
\* answer to the k-th request.  st.movies: the dicts; st.last[i]: what the
\* latest get_imdb_rating call for movie i returned; st.calls: the calls
\* made; st.raised: the exception that ended the loop.
FetchFrom(results, resps, k, st) ==
    IF k > Len(results) THEN st
    ELSE LET i == results[k][2]
             r == get_imdb_rating(resps[k])
         IN  IF r.raised # "none"
             THEN [st EXCEPT !.calls = @ + 1, !.raised = r.raised]
             ELSE FetchFrom(results, resps, k + 1,
                    [st EXCEPT !.calls = @ + 1,
                               !.movies[i] = StoreRating(@, r.val),
                               !.last[i] = <<r.val>>])

fetch_imdb_ratings(results, resps, movies, last) ==
    FetchFrom(results, resps, 1,
              [movies |-> movies, last |-> last, calls |-> 0, raised |-> "none"])

(***************************************************************************)
(* Rendering: the lines search() prints for a list of results              *)
(***************************************************************************)
NotAvailable == <<"N","/","A">>

\* One printed line, field by field.
Line(movie) ==
    [title |-> Str(movie[K_title]),
     director |-> Str(movie[K_director]),
     year |-> Str(movie[K_year]),
     genre |-> JoinWith(movie[K_genre].list, <<",", " ">>),
     rating |-> IF K_imdb_rating \in DOMAIN movie
                THEN Str(movie[K_imdb_rating]) ELSE NotAvailable]

Render(results, movies) == [k \in 1..Len(results) |-> Line(movies[results[k][2]])]

RECURSIVE RenderAll(_, _)
RenderAll(history, movies) ==
    IF history = <<>> THEN <<>>
    ELSE Render(Head(history), movies) \o RenderAll(Tail(history), movies)

(***************************************************************************)
(* The session: main() and search()                                        *)
(***************************************************************************)
VARIABLES
    movies,     \* the list of movie dicts (load_movies' result, ratings stored in place)
    history,    \* the list history
    cache,      \* the dict cache: raw query -> result list
    status,     \* "running", "exited" (break out of the loop), "crashed" (uncaught exception)
    error,      \* the uncaught exception and the function that raised it
    steps,      \* input lines read so far
    inp,        \* the line the last input() returned
    op,         \* the branch of search() the last call took
    out,        \* what the last call of search() printed
    fetches,    \* calls of get_imdb_rating so far
    searches,   \* calls of perform_search so far
    last,       \* last[i]: <<v>> if the latest get_imdb_rating for movie i returned v
    novel,      \* the raw queries handed to perform_search, in order
    results,    \* what the last perform_search returned
    shown       \* shown[q]: the lines printed when q was first answered

vars == <<movies, history, cache, status, error, steps, inp, op, out,
          fetches, searches, last, novel, results, shown>>

\* Input lines read in one run of the model.
MaxInputs == 3

S_exit == <<"e","x","i","t">>

S_last == <<"l","a","s","t">>

Row(title, director, year, genre) ==
    [k \in {K_title, K_director, K_year, K_genre} |->
        IF k = K_title THEN title
        ELSE IF k = K_director THEN director
        ELSE IF k = K_year THEN year
        ELSE genre]

\* The rows of movies.csv in the session.
CatalogRows ==
    << Row(<<"U","p">>, <<"D","o","c">>, <<"2","0","0","9">>, <<"K","i","d"," ","|"," ","F","u","n">>),
       Row(<<"H","e","a","t">>, <<"M","a","n","n">>, <<"1","9","9","5">>, <<"C","r","i","m","e">>),
       Row(<<"H","e","r">>, <<"J","o","n","z","e">>, <<"n","/","a">>, <<"D","r","a","m","a">>) >>

\* The lines typed in the session.
Inputs ==
    { S_exit,
      <<"E","X","I","T">>,
      <<" ","e","x","i","t">>,
      S_last,
      <<"L","a","s","t">>,
      <<"h","e">>,
      <<"H","e","r">>,
      <<"u","p"," ","h","e">>,
      K_imdb_rating \o <<":","n","o","n","e">>,
      K_imdb_rating \o <<":","8",".","8">>,
      <<"a",":","b",":","c">> }

Nothing == [hdr |-> "", lines |-> <<>>]

NoError == [exc |-> "none", frame |-> "none"]

Init ==
    /\ movies = load_movies(CatalogRows)
    /\ history = <<>>
    /\ cache = <<>>
    /\ status = "running"
    /\ error = NoError
    /\ steps = 0
    /\ inp = <<>>
    /\ op = "none"
    /\ out = Nothing
    /\ fetches = 0
    /\ searches = 0
    /\ last = [i \in 1..Len(CatalogRows) |-> <<>>]
    /\ novel = <<>>
    /\ results = <<>>
    /\ shown = <<>>

\* query.lower() == 'exit'
IsExit(query) == Lower(query) = S_exit

\* Variant: 'last' compared without lower().
IsLastExact(query) == query = S_last

\* query.lower() == 'last'
IsLast(query) == Lower(query) = S_last

\* Variant: the cache looked up under the lowercased query.
InCacheLowered(query, c) == Lower(query) \in DOMAIN c

\* query in cache
InCache(query, c) == query \in DOMAIN c

\* Variant: history.insert(0, results)
RememberFirst(h, res) == <<res>> \o h

\* history.append(results)
Remember(h, res) == Append(h, res)

\* if query.lower() == 'exit': return "exit"; main breaks out of its loop.
SearchExit(query) ==
    /\ IsExit(query)
    /\ op' = "exit"
    /\ out' = Nothing
    /\ status' = "exited"
    /\ UNCHANGED <<movies, history, cache, error, fetches, searches, last,
                   novel, results, shown>>

\* if query.lower() == 'last': print the history, or that there is none.
SearchLast(query) ==
    /\ ~IsExit(query)
    /\ IsLast(query)
    /\ IF history # <<>>
       THEN /\ op' = "last"
            /\ out' = [hdr |-> "Search History:", lines |-> RenderAll(history, movies)]
       ELSE /\ op' = "nohistory"
            /\ out' = [hdr |-> "No previous searches.", lines |-> <<>>]
    /\ status' = "running"
    /\ UNCHANGED <<movies, history, cache, error, fetches, searches, last,
                   novel, results, shown>>

\* if query in cache: print cache[query].
SearchCached(query) ==
    /\ ~IsExit(query)
    /\ ~IsLast(query)
    /\ InCache(query, cache)
    /\ op' = "cached"
    /\ out' = [hdr |-> "Results from cache:", lines |-> Render(cache[query], movies)]
    /\ status' = "running"
    /\ UNCHANGED <<movies, history, cache, error, fetches, searches, last,
                   novel, results, shown>>

\* perform_search raises: the exception leaves search() and main().
SearchRaises(query) ==
    /\ ~IsExit(query)
    /\ ~IsLast(query)
    /\ ~InCache(query, cache)
    /\ \E ps \in {perform_search(query, movies)} :
         /\ ps.raised # "none"
         /\ error' = [exc |-> ps.raised, frame |-> "perform_search"]
    /\ op' = "raised"
    /\ out' = Nothing
    /\ status' = "crashed"
    /\ searches' = searches + 1
    /\ novel' = Append(novel, query)
    /\ UNCHANGED <<movies, history, cache, fetches, last, results, shown>>

\* results = perform_search(query, movies); fetch_imdb_ratings(results);
\* cache[query] = results; history.append(results); print the results.
\* An exception of get_imdb_rating leaves the loop, search() and main().
SearchNovel(query) ==
    /\ ~IsExit(query)
    /\ ~IsLast(query)
    /\ ~InCache(query, cache)
    /\ \E ps \in {perform_search(query, movies)} :
         /\ ps.raised = "none"
         /\ \E resps \in [1..Len(ps.ret) -> Responses] :
              \E f \in {fetch_imdb_ratings(ps.ret, resps, movies, last)} :
                 /\ searches' = searches + 1
                 /\ novel' = Append(novel, query)
                 /\ results' = ps.ret
                 /\ movies' = f.movies
                 /\ last' = f.last
                 /\ fetches' = fetches + f.calls
                 /\ IF f.raised # "none"
                    THEN /\ op' = "raised"
                         /\ out' = Nothing
                         /\ status' = "crashed"
                         /\ error' = [exc |-> f.raised, frame |-> "get_imdb_rating"]
                         /\ UNCHANGED <<history, cache, shown>>
                    ELSE /\ op' = "searched"
                         /\ cache' = SetItem(cache, query, ps.ret)
                         /\ history' = Remember(history, ps.ret)
                         /\ out' = [hdr |-> "Results:", lines |-> Render(ps.ret, f.movies)]
                         /\ shown' = SetItem(shown, query, Render(ps.ret, f.movies))
                         /\ status' = "running"
                         /\ UNCHANGED error

\* One turn of main's loop: query = input(...); result = search(query, ...).
Main(query) ==
    /\ status = "running"
    /\ steps < MaxInputs
    /\ steps' = steps + 1
    /\ inp' = query
    /\ \/ SearchExit(query)
       \/ SearchLast(query)
       \/ SearchCached(query)
       \/ SearchRaises(query)
       \/ SearchNovel(query)

Next == \E query \in Inputs : Main(query)

Spec == Init /\ [][Next]_vars

(***************************************************************************)
(* perform_search alone: one call on a catalog and a query drawn from      *)
(* bounded sets                                                            *)
(***************************************************************************)
\* Movies in a catalog handed to perform_search.
MaxMovies == 3

\* Whitespace-separated parts of a query handed to perform_search.
MaxParts == 2

PSRows ==
    { Row(<<"H","e","a","t">>, <<"M","a","n","n">>, <<"1","9","9","5">>, <<"C","r","i","m","e">>),
      Row(<<"H","e","r">>, <<"J","o","n","z","e">>, <<"n","/","a">>, <<"D","r","a","m","a"," ","|"," ","C","r","i","m","e">>),
      Row(<<"U","p">>, <<>>, <<"2","0","0","9">>, <<"K","i","d">>) }

PSCatalogs == UNION {[1..n -> PSRows] : n \in 0..MaxMovies}

PSTokens ==
    { <<"h","e">>,
      <<"U","P">>,
      K_year \o <<":","1","9","9","5">>,
      K_genre \o <<":","c","r","i","m","e">>,
      K_title \o <<":","\"","h","e","a","t","\"">>,
      K_director \o <<":","\"">>,
      <<":">>,
      <<"a",":","b",":","c">> }

PSQueries ==
    {JoinWith(parts, <<" ">>) : parts \in UNION {[1..n -> PSTokens] : n \in 0..MaxParts}}

PSInit ==
    /\ \E rows \in PSCatalogs :
         /\ movies = load_movies(rows)
         /\ last = [i \in 1..Len(rows) |-> <<>>]
    /\ inp \in PSQueries
    /\ history = <<>>
    /\ cache = <<>>
    /\ status = "running"
    /\ error = NoError
    /\ steps = 0
    /\ op = "none"
    /\ out = Nothing
    /\ fetches = 0
    /\ searches = 0
    /\ novel = <<>>
    /\ results = <<>>
    /\ shown = <<>>

\* results = perform_search(inp, movies)
PSCall ==
    /\ op = "none"
    /\ \E ps \in {perform_search(inp, movies)} :
         /\ results' = ps.ret
         /\ op' = IF ps.raised = "none" THEN "searched" ELSE "raised"
         /\ status' = IF ps.raised = "none" THEN "running" ELSE "crashed"
         /\ error' = IF ps.raised = "none" THEN NoError
                     ELSE [exc |-> ps.raised, frame |-> "perform_search"]
    /\ searches' = searches + 1
    /\ UNCHANGED <<movies, history, cache, steps, inp, out, fetches, last, novel, shown>>

PSNext == PSCall

SpecPS == PSInit /\ [][PSNext]_vars

(***************************************************************************)
(* Properties                                                              *)
(***************************************************************************)
\* A turn of main's loop has read the line inp'.
Turn == status = "running" /\ steps' = steps + 1

\* The line is neither 'exit' nor 'last' in any letter case.
IsQuery(line) == Lower(line) # S_exit /\ Lower(line) # S_last

\* The line was handed to perform_search earlier in the session.
Searched(line) == \E k \in 1..Len(novel) : novel[k] = line

\* C1: a query equal, character for character, to one searched earlier in
\* the session makes no rating fetch and no perform_search call, prints
\* exactly the result list stored under that key, and leaves the cache and
\* the history as they are.
C1_RepeatServedFromCache ==
    [][ (Turn /\ IsQuery(inp') /\ Searched(inp'))
          => /\ fetches' = fetches
             /\ searches' = searches
             /\ inp' \in DOMAIN cache
             /\ out'.lines = Render(cache[inp'], movies')
             /\ cache' = cache
             /\ history' = history
             /\ status' = "running" ]_vars

\* C1 happens: a cached query is answered, after fetches were made, and
\* one whose stored result list is empty is answered from the cache too.
C1_Witness ==
    /\ op = "cached"
    /\ fetches > 0
    /\ cache[inp] = <<>>
    /\ \E q \in DOMAIN cache : cache[q] # <<>>

\* C2: get_imdb_rating never raises, so no session ends on an exception
\* raised by a rating fetch.
C2_FetchNeverRaises == error.frame # "get_imdb_rating"

\* The query parts of the last perform_search call.
InpParts == SplitWs(inp)

\* The score the returned list gives movie i (0: the movie is not in it).
ScoreOf(i) ==
    IF \E k \in 1..Len(results) : results[k][2] = i
    THEN results[CHOOSE k \in 1..Len(results) : results[k][2] = i][1]
    ELSE 0

\* Position of the first colon of a part that has one.
FirstColon(part) == Min({k \in 1..Len(part) : part[k] = ":"})

\* A part with a colon read as field:value: the text before the first
\* colon, and the text behind it without its surrounding double quotes.
FieldOf(part) == SubSeq(part, 1, FirstColon(part) - 1)

ValueOf(part) == StripQuotes(SubSeq(part, FirstColon(part) + 1, Len(part)))

\* What a part adds to a movie's match count as the specification has it:
\* a part with a colon adds 1 iff the movie has the field and its text equals
\* the value case-insensitively, and is never scored against the title.
Adds(part, movie) ==
    IF Contains(part, ":")
    THEN FieldOf(part) \in DOMAIN movie
         /\ Lower(Str(movie[FieldOf(part)])) = Lower(ValueOf(part))
    ELSE FuzzyMatches(part, movie)

\* C3: every query part holding a colon adds 1 to a movie's match count iff
\* the movie has the named field with a value equal to the part's value
\* case-insensitively, and adds 0 otherwise whatever the title is; so every
\* call of perform_search ends with each movie scored by the parts that add.
C3_ColonPartsScoredByField ==
    (op # "none") =>
        /\ op = "searched"
        /\ \A i \in 1..Len(movies) :
             ScoreOf(i) = Cardinality({p \in 1..Len(InpParts) : Adds(InpParts[p], movies[i])})

\* C4: the list perform_search returns holds exactly the movies whose match
\* count is above 0, each once and paired with that count, in descending
\* order of count, movies of equal count in catalog order.
C4_ResultsFilteredSortedStable ==
    (op = "searched") =>
      \A count \in {[i \in 1..Len(movies) |-> MatchCount(InpParts, movies[i])]} :
        /\ {results[k][2] : k \in 1..Len(results)}
             = {i \in 1..Len(movies) : count[i] > 0}
        /\ \A k \in 1..Len(results) : results[k][1] = count[results[k][2]]
        /\ \A k1, k2 \in 1..Len(results) :
             k1 < k2 =>
               /\ results[k1][2] # results[k2][2]
               /\ results[k1][1] >= results[k2][1]
               /\ (results[k1][1] = results[k2][1] => results[k1][2] < results[k2][2])

\* C4 happens: three movies returned, the best scored one taken from the
\* end of the catalog and placed before two movies of equal score.
C4_Witness ==
    /\ op = "searched"
    /\ Len(results) = 3
    /\ results[1][2] = 3
    /\ results[2][1] = results[3][1]
    /\ results[1][1] > results[2][1]

\* C5: whatever the shape of a query part that holds a colon, perform_search
\* raises nothing and returns a list.
C5_ColonPartsNeverRaise ==
    (op # "none" /\ \E p \in 1..Len(InpParts) : Contains(InpParts[p], ":"))
        => (op = "searched" /\ error = NoError)

\* C6: the line 'last' in any letter case keeps the session running, calls
\* neither perform_search nor the rating fetch, leaves cache, history and
\* movies alone, and prints the no-history message when the history is empty
\* and every stored result list in history order otherwise.
C6_LastShowsHistory ==
    [][ (Turn /\ Lower(inp') = S_last)
          => /\ status' = "running"
             /\ searches' = searches
             /\ fetches' = fetches
             /\ cache' = cache
             /\ history' = history
             /\ movies' = movies
             /\ (history = <<>> => out' = [hdr |-> "No previous searches.", lines |-> <<>>])
             /\ (history # <<>> =>
                   /\ out'.hdr = "Search History:"
                   /\ out'.lines = RenderAll(history, movies)) ]_vars

\* C6 happens: 'Last' typed after two searches, both lists printed.
C6_Witness ==
    /\ op = "last"
    /\ inp # S_last
    /\ Len(history) = 2
    /\ history[1] # <<>>
    /\ history[2] # <<>>
    /\ status = "running"

\* C7: a line whose lowercase form is 'exit' ends the session at once with
\* nothing printed, searched, fetched or stored; every other line leaves the
\* session running.
C7_OnlyExitEndsSession ==
    [][ Turn =>
          IF Lower(inp') = S_exit
          THEN /\ status' = "exited"
               /\ out' = Nothing
               /\ searches' = searches
               /\ fetches' = fetches
               /\ cache' = cache
               /\ history' = history
          ELSE status' = "running" ]_vars

\* Every (score, movie) entry of every cached result list and history entry.
StoredEntries ==
    UNION ({ {cache[q][k] : k \in 1..Len(cache[q])} : q \in DOMAIN cache }
           \cup { {history[h][k] : k \in 1..Len(history[h])} : h \in 1..Len(history) })

\* C8: every stored entry's movie carries the value the latest rating fetch
\* for that movie returned, under whichever query it was made; a result list
\* printed from the cache shows those ratings.
C8_StoredEntriesShareLatestRating ==
    /\ \A e \in StoredEntries :
         /\ K_imdb_rating \in DOMAIN movies[e[2]]
         /\ last[e[2]] = <<movies[e[2]][K_imdb_rating]>>
    /\ (op = "cached") =>
         /\ Len(out.lines) = Len(cache[inp])
         /\ \A k \in 1..Len(out.lines) :
              out.lines[k].rating = Str(last[cache[inp][k][2]][1])

\* C8 happens: a cache hit prints a rating other than the one printed when
\* the query was first answered.
C8_Witness ==
    /\ op = "cached"
    /\ out.lines # shown[inp]

\* Cache and history in step.
InStep ==
    /\ Cardinality(DOMAIN cache) = Len(history)
    /\ Len(novel) >= Len(history)
    /\ \A i \in 1..Len(history) :
         /\ novel[i] \in DOMAIN cache
         /\ cache[novel[i]] = history[i]
    /\ \A q \in DOMAIN cache : Lower(q) # S_exit /\ Lower(q) # S_last

\* Nothing stored is removed or changed.
AppendOnly ==
    /\ \A q \in DOMAIN cache : q \in DOMAIN cache' /\ cache'[q] = cache[q]
    /\ Len(history') >= Len(history)
    /\ SubSeq(history', 1, Len(history)) = history

\* C9: cache and history are append-only and in step: as many history
\* entries as cache keys, the i-th history entry being the list stored under
\* the i-th query searched, no key removed or rebound, no list changed, and
\* no key whose lowercase form is 'exit' or 'last'.
C9_CacheHistoryAppendOnlyInStep == []InStep /\ [][AppendOnly]_vars

\* C9 happens: two searches with different result lists are stored, and a
\* later turn has left them in place.
C9_Witness ==
    /\ Len(history) = 2
    /\ history[1] # history[2]
    /\ steps = 3
    /\ status = "running"

\* C10: the list perform_search computes for a novel query depends only on
\* the query and the catalog as loaded, not on the queries processed before.
C10_SearchIgnoresEarlierQueries ==
    (op = "searched") => results = perform_search(inp, load_movies(CatalogRows)).ret

=============================================================================
